---------------------------- MODULE Spec2Model ----------------------------
(***************************************************************************)
(* A model of the AQI prediction service (src/app.py) and of the AQI      *)
(* formula used to label the training data (src/model_train.py).          *)
(*                                                                         *)
(* Units.  AQI scores are integers in hundredths of an AQI point (50.04   *)
(* is 5004).  Feature values of a request are plain integers.  Pollutant   *)
(* concentrations given to calculate_aqi are integers in tenths (35.4 is   *)
(* 354) and its sub-indices are exact fractions <<num, den>>.              *)
(***************************************************************************)
EXTENDS Integers, Sequences, FiniteSets, TLC

VARIABLES
    model,      \* app.py:36  global model  ("None" or "loaded")
    scaler,     \* app.py:37  global scaler ("None" or "loaded")
    phase,      \* "boot" before load_model() has run, "serving" afterwards
    log_file,   \* aqi_prediction_log.csv: [exists, lines]
    clock,      \* number of requests received so far; datetime.now()
    req,        \* the request being answered (NoReq before the first one)
    resp,       \* the response to req
    n200,       \* number of /api/predict requests answered with 200
    threads,    \* request threads of the threaded server
    call,       \* last call of a pure function: [fn, arg, result]
    prev        \* the call before that

vars == <<model, scaler, phase, log_file, clock, req, resp, n200, threads, call, prev>>

-----------------------------------------------------------------------------
(* Bounds of the model *)

MaxRequests == 2
MaxBad == 1
MaxThreads == 2

-----------------------------------------------------------------------------
(* Values: JSON values of a request body and cells of the log store *)

Num(n) == [t |-> "num", n |-> n, s |-> ""]
Str(s) == [t |-> "str", n |-> 0, s |-> s]
Null == [t |-> "null", n |-> 0, s |-> ""]

\* Python dicts keep insertion order: a dict is a sequence of <<key, value>>.
Has(d, k) == \E i \in DOMAIN d : d[i][1] = k
Get(d, k) == d[CHOOSE i \in DOMAIN d : d[i][1] = k][2]
Set(d, k, v) ==
    IF Has(d, k)
    THEN [i \in DOMAIN d |-> IF d[i][1] = k THEN <<k, v>> ELSE d[i]]
    ELSE Append(d, <<k, v>>)
Keys(d) == [i \in DOMAIN d |-> d[i][1]]
Values(d) == [i \in DOMAIN d |-> d[i][2]]

\* float(x): a number converts, a string converts when it spells a number
\* (ValueError otherwise), None raises TypeError.
FloatOfStr(s) ==
    CASE s = "5" -> [raised |-> "", v |-> 5]
      [] s = "-1" -> [raised |-> "", v |-> -1]
      [] OTHER -> [raised |-> "ValueError", v |-> 0]
ToFloat(x) ==
    CASE x.t = "num" -> [raised |-> "", v |-> x.n]
      [] x.t = "str" -> FloatOfStr(x.s)
      [] OTHER -> [raised |-> "TypeError", v |-> 0]

\* round(x, 1) on hundredths: to the nearest tenth, ties to the even tenth.
Round1(x) ==
    LET q == x \div 10
        r == x % 10
    IN  IF r < 5 THEN 10 * q
        ELSE IF r > 5 THEN 10 * (q + 1)
        ELSE IF q % 2 = 0 THEN 10 * q ELSE 10 * (q + 1)

-----------------------------------------------------------------------------
(* get_aqi_category, app.py:55-68 *)

\* A variant of get_aqi_category: every threshold tested with < for <=.
GetAqiCategoryLt(aqi) ==
    IF aqi < 5000 THEN <<"Good", "#00E400">>
    ELSE IF aqi < 10000 THEN <<"Moderate", "#FFFF00">>
    ELSE IF aqi < 15000 THEN <<"Unhealthy for Sensitive Groups", "#FF7E00">>
    ELSE IF aqi < 20000 THEN <<"Unhealthy", "#FF0000">>
    ELSE IF aqi < 30000 THEN <<"Very Unhealthy", "#8F3F97">>
    ELSE <<"Hazardous", "#7E0023">>

get_aqi_category(aqi) ==
    IF aqi <= 5000 THEN <<"Good", "#00E400">>
    ELSE IF aqi <= 10000 THEN <<"Moderate", "#FFFF00">>
    ELSE IF aqi <= 15000 THEN <<"Unhealthy for Sensitive Groups", "#FF7E00">>
    ELSE IF aqi <= 20000 THEN <<"Unhealthy", "#FF0000">>
    ELSE IF aqi <= 30000 THEN <<"Very Unhealthy", "#8F3F97">>
    ELSE <<"Hazardous", "#7E0023">>

-----------------------------------------------------------------------------
(* Responses *)

NoBody == <<>>
Response(status, error, field) ==
    [status |-> status, error |-> error, field |-> field, aqi |-> 0,
     category |-> "", color |-> "", input_data |-> NoBody,
     model_status |-> "", samples |-> NoBody]

ModelNotLoadedMsg == "Model not loaded. Please ensure model files exist and restart the server."
GenericErrorMsg == "An error occurred during prediction"

NoResp == Response(0, "", "")
NoCall == [fn |-> "none", arg |-> <<>>, result |-> <<>>]
NoReq == [route |-> "", body |-> [k |-> "null", n |-> 0, items |-> <<>>],
          out |-> 0, fault |-> "none"]


-----------------------------------------------------------------------------
(* load_model, app.py:39-53.  The inputs are what the file system and       *)
(* joblib do: whether each artifact exists and whether each load succeeds.  *)

load_model(m_exists, s_exists, m_loads, s_loads) ==
    IF m_exists /\ s_exists
    THEN IF ~m_loads THEN [model |-> "None", scaler |-> "None", ret |-> FALSE]
         ELSE IF ~s_loads THEN [model |-> "loaded", scaler |-> "None", ret |-> FALSE]
         ELSE [model |-> "loaded", scaler |-> "loaded", ret |-> TRUE]
    ELSE [model |-> "None", scaler |-> "None", ret |-> FALSE]

-----------------------------------------------------------------------------
(* log_prediction, app.py:10-24 *)

AbsentLog == [exists |-> FALSE, lines |-> <<>>]

\* lines 14-18: the three added keys, then the 1-row DataFrame, whose
\* columns are the keys of data in insertion order.
LogFrame(data, prediction, category, now) ==
    Set(Set(Set(data, "Predicted_AQI", Num(Round1(prediction))),
            "Category", Str(category)),
        "Timestamp", Num(now))

\* A line of the store: its cells, and (for the properties only) the
\* DataFrame column each cell was written from.
HeaderLine(df) ==
    [header |-> TRUE, cells |-> [i \in DOMAIN df |-> Str(df[i][1])], cols |-> Keys(df)]
RowLine(df) == [header |-> FALSE, cells |-> Values(df), cols |-> Keys(df)]

\* line 22: to_csv(log_file, index=False) truncates or creates the file and
\* writes the header and the row.
ToCsvWrite(log, df) == [exists |-> TRUE, lines |-> <<HeaderLine(df), RowLine(df)>>]
\* line 24: to_csv(log_file, mode='a', index=False, header=False)
ToCsvAppend(log, df) == [exists |-> TRUE, lines |-> Append(log.lines, RowLine(df))]

\* A variant of ToCsv: write mode whether or not the store exists.
ToCsvAlwaysWrite(log, df, seen) == ToCsvWrite(log, df)

\* lines 21-24, given what os.path.exists answered
ToCsv(log, df, seen) ==
    IF ~seen THEN ToCsvWrite(log, df) ELSE ToCsvAppend(log, df)

log_prediction(data, prediction, category, log, now) ==
    ToCsv(log, LogFrame(data, prediction, category, now), log.exists)

-----------------------------------------------------------------------------
(* predict_aqi, app.py:80-162 *)

\* A variant of RequiredFeatures: o3 checked before co.
RequiredFeaturesSwapped ==
    <<"pm25", "pm10", "no2", "so2", "o3", "co", "temperature", "humidity">>

\* line 97
RequiredFeatures ==
    <<"pm25", "pm10", "no2", "so2", "co", "o3", "temperature", "humidity">>

\* A variant of ModelMissing: `and` for `or`.
ModelMissingBoth(m, s) == m = "None" /\ s = "None"

\* line 85
ModelMissing(m, s) == m = "None" \/ s = "None"

\* line 93, "not data": None, 0 and the empty object are falsy
Falsy(body) ==
    \/ body.k = "null"
    \/ body.k = "number" /\ body.n = 0
    \/ body.k = "object" /\ body.items = <<>>

\* lines 100-111: the first feature that fails decides the response; a
\* feature that passes is replaced by its float value (line 109).
RECURSIVE Validate(_, _)
Validate(data, i) ==
    IF i > Len(RequiredFeatures) THEN [resp |-> NoResp, data |-> data]
    ELSE LET feature == RequiredFeatures[i] IN
         IF ~Has(data, feature)
         THEN [resp |-> Response(400, "Missing required parameter", feature),
               data |-> data]
         ELSE LET value == ToFloat(Get(data, feature)) IN
              IF value.raised # ""
              THEN [resp |-> Response(400, "must be a number", feature), data |-> data]
              ELSE IF value.v < 0
              THEN [resp |-> Response(400, "must be non-negative", feature),
                    data |-> data]
              ELSE Validate(Set(data, feature, Num(value.v)), i + 1)

\* A variant of Clamp: min(500, aqi_prediction) alone.
ClampUpper(x) == IF x > 50000 THEN 50000 ELSE x

\* line 132: max(0, min(500, aqi_prediction))
Clamp(x) ==
    LET m == IF x < 50000 THEN x ELSE 50000
    IN  IF m > 0 THEN m ELSE 0

\* lines 138-152
SuccessResponse(data, aqi_prediction, cat) ==
    [status |-> 200, error |-> "", field |-> "",
     aqi |-> Round1(aqi_prediction), category |-> cat[1], color |-> cat[2],
     input_data |-> << <<"PM2.5", Get(data, "pm25")>>,
                       <<"PM10", Get(data, "pm10")>>,
                       <<"NO2", Get(data, "no2")>>,
                       <<"SO2", Get(data, "so2")>>,
                       <<"CO", Get(data, "co")>>,
                       <<"O3", Get(data, "o3")>>,
                       <<"Temperature", Get(data, "temperature")>>,
                       <<"Humidity", Get(data, "humidity")>> >>,
     model_status |-> "", samples |-> NoBody]

Return(r) == [raised |-> "", resp |-> r, tolog |-> FALSE, data |-> <<>>,
              prediction |-> 0, category |-> ""]
Raise(e) == [raised |-> e, resp |-> NoResp, tolog |-> FALSE, data |-> <<>>,
             prediction |-> 0, category |-> ""]

\* lines 84-154: everything the handler does before it calls log_prediction.
\* r.body is what request.get_json() meets ("malformed": it raises),
\* r.fault says whether scaler.transform or model.predict raises, and r.out
\* is the value model.predict returns.
Compute(m, s, r) ==
    IF ModelMissing(m, s) THEN Return(Response(500, ModelNotLoadedMsg, ""))
    ELSE IF r.body.k = "malformed" THEN Raise("BadRequest")
    ELSE IF Falsy(r.body) THEN Return(Response(400, "No data provided", ""))
    ELSE IF r.body.k = "number" THEN Raise("TypeError")
    ELSE LET v == Validate(r.body.items, 1) IN
         IF v.resp # NoResp THEN Return(v.resp)
         ELSE IF r.fault = "transform" THEN Raise("ValueError")
         ELSE IF r.fault = "predict" THEN Raise("ValueError")
         ELSE LET aqi_prediction == Clamp(r.out)
                  cat == get_aqi_category(aqi_prediction)
              IN  [raised |-> "", resp |-> SuccessResponse(v.data, aqi_prediction, cat),
                   tolog |-> TRUE, data |-> v.data,
                   prediction |-> aqi_prediction, category |-> cat[1]]

\* A variant of OnException: str(e) as the message.
OnExceptionLeak(e) == Response(500, e, "")

\* lines 160-162
OnException(e) == Response(500, GenericErrorMsg, "")

\* The whole handler, one request after another.  r.fault = "log": to_csv
\* cannot open the log store and raises before it writes.
predict_aqi(m, s, r, log, now) ==
    LET c == Compute(m, s, r) IN
    IF c.raised # "" THEN [resp |-> OnException(c.raised), log |-> log]
    ELSE IF ~c.tolog THEN [resp |-> c.resp, log |-> log]
    ELSE IF r.fault = "log" THEN [resp |-> OnException("OSError"), log |-> log]
    ELSE [resp |-> c.resp,
          log |-> log_prediction(c.data, c.prediction, c.category, log, now)]

-----------------------------------------------------------------------------
(* get_sample_data, app.py:164-222, and health_check, app.py:224-231 *)

SampleKeys ==
    <<"pm25", "pm10", "no2", "so2", "co", "o3", "temperature", "humidity">>

\* The four fixed payloads, values in tenths.
SampleDatasets ==
    << [name |-> "Good Air Quality",
        data |-> <<85, 152, 123, 21, 4, 452, 225, 550>>],
       [name |-> "Moderate Air Quality",
        data |-> <<254, 458, 356, 82, 12, 853, 281, 685>>],
       [name |-> "Unhealthy Air Quality",
        data |-> <<956, 1552, 754, 251, 85, 1458, 352, 453>>],
       [name |-> "Very Unhealthy Air Quality",
        data |-> <<1853, 2857, 1258, 456, 152, 2054, 387, 358>>] >>

get_sample_data == [Response(200, "", "") EXCEPT !.samples = SampleDatasets]

health_check(m, s) ==
    [Response(200, "", "") EXCEPT
        !.model_status = IF m # "None" /\ s # "None" THEN "loaded" ELSE "not loaded"]

-----------------------------------------------------------------------------
(* The requests the model sends *)

Positions == 1..8

\* What a client may put in place of a feature's value.
AlteredValue(kind) ==
    CASE kind = "str" -> Str("abc")
      [] kind = "neg" -> Num(-1)
      [] kind = "null" -> Null
      [] kind = "negstr" -> Str("-1")
      [] kind = "numstr" -> Str("5")
      [] kind = "zero" -> Num(0)
      [] OTHER -> Num(5)

\* The sample payload's keys, each with the value 5, altered at the
\* positions S as kf says ("missing" drops the key).
AlterItems(S, kf) ==
    LET valued == [i \in Positions |->
                     <<SampleKeys[i], IF i \in S THEN AlteredValue(kf[i]) ELSE Num(5)>>]
        Kept(p) == ~(\E i \in S : kf[i] = "missing" /\ SampleKeys[i] = p[1])
    IN  SelectSeq(valued, Kept)

Object(items) == [k |-> "object", n |-> 0, items |-> items]

PlainItems == AlterItems({}, <<>>)

\* Up to MaxBad features missing, non-numeric or negative.
BadBodies ==
    UNION {{Object(AlterItems(S, kf)) : kf \in [S -> {"missing", "str", "neg"}]} :
             S \in {T \in SUBSET Positions : Cardinality(T) \in 1..MaxBad}}

\* Two features wrong at once, the later one of the body's order being the
\* earlier one of another order in some of them.
TwoBadBodies ==
    {Object(AlterItems(DOMAIN kf, kf)) :
        kf \in {(5 :> "missing") @@ (6 :> "str"),
                (5 :> "neg") @@ (6 :> "missing"),
                (1 :> "str") @@ (5 :> "missing"),
                (2 :> "neg") @@ (3 :> "str"),
                (7 :> "neg") @@ (8 :> "missing"),
                (4 :> "missing") @@ (7 :> "neg")}}

\* One feature given as null, as a string that spells a number, or as 0.
OddBodies ==
    {Object(AlterItems({i}, [j \in Positions |-> kind])) :
        i \in Positions, kind \in {"null", "negstr", "numstr", "zero"}}

\* Valid bodies whose keys come in another order or with a key more.
SwappedItems ==
    <<PlainItems[2], PlainItems[1]>> \o SubSeq(PlainItems, 3, 8)
ExtraItems == <<<<"station", Str("A1")>>>> \o PlainItems
OrderBodies == {Object(SwappedItems), Object(ExtraItems)}

\* Bodies that are no object of features.
OtherBodies ==
    {[k |-> "malformed", n |-> 0, items |-> <<>>],
     [k |-> "null", n |-> 0, items |-> <<>>],
     [k |-> "number", n |-> 0, items |-> <<>>],
     [k |-> "number", n |-> 7, items |-> <<>>],
     Object(<<>>)}

\* Values the regressor returns, in hundredths: below 0, above 500, on and
\* just above the thresholds of the bands.
Outputs == {-1000, 4200, 5000, 5004, 30004, 999900}

Faults == {"none", "transform", "predict", "log"}

PredictRequest(body, out, fault) ==
    [route |-> "predict", body |-> body, out |-> out, fault |-> fault]

Requests ==
    {PredictRequest(b, 4200, "none") : b \in BadBodies \cup TwoBadBodies \cup OddBodies \cup OtherBodies}
    \cup {PredictRequest(b, 4200, f) : b \in OrderBodies, f \in {"none", "log"}}
    \cup {PredictRequest(Object(PlainItems), o, f) : o \in Outputs, f \in Faults}

-----------------------------------------------------------------------------
(* The service, one request after another *)

Init ==
    /\ model = "None"
    /\ scaler = "None"
    /\ phase = "boot"
    /\ log_file = AbsentLog
    /\ clock = 0
    /\ req = NoReq
    /\ resp = NoResp
    /\ n200 = 0
    /\ threads = <<>>
    /\ call = NoCall
    /\ prev = NoCall

\* app.py:241-251: load_model() once, then the server runs.
Startup ==
    /\ phase = "boot"
    /\ \E m_exists, s_exists, m_loads, s_loads \in BOOLEAN :
         LET l == load_model(m_exists, s_exists, m_loads, s_loads) IN
         /\ model' = l.model
         /\ scaler' = l.scaler
    /\ phase' = "serving"
    /\ UNCHANGED <<log_file, clock, req, resp, n200, threads, call, prev>>

Predict ==
    /\ phase = "serving"
    /\ clock < MaxRequests
    /\ \E r \in Requests :
         LET o == predict_aqi(model, scaler, r, log_file, clock) IN
         /\ req' = r
         /\ resp' = o.resp
         /\ log_file' = o.log
         /\ n200' = IF o.resp.status = 200 THEN n200 + 1 ELSE n200
    /\ clock' = clock + 1
    /\ UNCHANGED <<model, scaler, phase, threads, call, prev>>

Health ==
    /\ phase = "serving"
    /\ clock < MaxRequests
    /\ req' = [NoReq EXCEPT !.route = "health"]
    /\ resp' = health_check(model, scaler)
    /\ clock' = clock + 1
    /\ UNCHANGED <<model, scaler, phase, log_file, n200, threads, call, prev>>

SampleData ==
    /\ phase = "serving"
    /\ clock < MaxRequests
    /\ req' = [NoReq EXCEPT !.route = "sample-data"]
    /\ resp' = get_sample_data
    /\ clock' = clock + 1
    /\ UNCHANGED <<model, scaler, phase, log_file, n200, threads, call, prev>>

Next == Startup \/ Predict \/ Health \/ SampleData

Spec == Init /\ [][Next]_vars

-----------------------------------------------------------------------------
(* Vocabulary of the properties *)

Ready == model = "loaded" /\ scaler = "loaded"
IsPredict == req.route = "predict"
IsObject == req.body.k = "object" /\ req.body.items # <<>>

ClaimedOrder ==
    <<"pm25", "pm10", "no2", "so2", "co", "o3", "temperature", "humidity">>

\* What is wrong with feature f of the request body, "" when nothing is.
NonNumeric(v) == v.t = "null" \/ (v.t = "str" /\ v.s \notin {"5", "-1"})
Negative(v) == (v.t = "num" /\ v.n < 0) \/ (v.t = "str" /\ v.s = "-1")
Offence(items, f) ==
    IF \A i \in DOMAIN items : items[i][1] # f THEN "Missing required parameter"
    ELSE LET v == items[CHOOSE i \in DOMAIN items : items[i][1] = f][2] IN
         IF NonNumeric(v) THEN "must be a number"
         ELSE IF Negative(v) THEN "must be non-negative"
         ELSE ""
Offenders(items) == {i \in DOMAIN ClaimedOrder : Offence(items, ClaimedOrder[i]) # ""}
FirstOffender(items) ==
    CHOOSE i \in Offenders(items) : \A j \in Offenders(items) : i <= j
ValidBody == IsObject /\ Offenders(req.body.items) = {}

DataRows(log) == Cardinality({i \in DOMAIN log.lines : ~log.lines[i].header})
HeaderRows(log) == Cardinality({i \in DOMAIN log.lines : log.lines[i].header})

-----------------------------------------------------------------------------
C2_UnreadyStaysUnready ==
    /\ []((IsPredict /\ ~Ready) => (resp.status = 500 /\ resp.error = ModelNotLoadedMsg))
    /\ [][phase = "serving" => (model' = model /\ scaler' = scaler)]_vars

\* The model loaded, the scaler failed to load, and a valid request came.
C2_Witness ==
    /\ phase = "serving" /\ model = "loaded" /\ scaler = "None"
    /\ IsPredict /\ ValidBody /\ req.fault = "none"
    /\ resp.status = 500

(* C3: the aqi of every 200 response lies in [0, 500]; a regressor output   *)
(* below 0 is returned as 0 in the band Good, one above 500 as 500 in the   *)
(* band Hazardous.                                                          *)
C3_PredictionClamped ==
    (IsPredict /\ resp.status = 200) =>
        /\ 0 <= resp.aqi /\ resp.aqi <= 50000
        /\ req.out < 0 => (resp.aqi = 0 /\ resp.category = "Good")
        /\ req.out > 50000 => (resp.aqi = 50000 /\ resp.category = "Hazardous")

C3_Witness ==
    /\ IsPredict /\ resp.status = 200 /\ req.out = -1000
    /\ resp.aqi = 0 /\ resp.category = "Good"

(* C8: a fault raised while a prediction request is handled (the body       *)
(* cannot be read, the scaler, the regressor or the log append raises) is   *)
(* answered 500 with the generic message; every 500 response carries one of *)
(* the two fixed messages.                                                  *)
C8_FaultsAreGeneric500 ==
    (IsPredict /\ Ready) =>
        /\ (\/ req.body.k = "malformed"
            \/ (req.body.k = "number" /\ req.body.n # 0)
            \/ (ValidBody /\ req.fault # "none"))
              => (resp.status = 500 /\ resp.error = GenericErrorMsg)
        /\ resp.status = 500 => resp.error = GenericErrorMsg
        /\ resp.status \in {200, 400, 500}

\* The prediction was computed, the log append failed, the answer is 500.
C8_Witness ==
    /\ IsPredict /\ Ready /\ ValidBody /\ req.fault = "log"
    /\ resp.status = 500 /\ resp.error = GenericErrorMsg

(* C9: the number of data rows of the log store is the number of prediction *)
(* requests answered 200; a request answered otherwise, and a health or     *)
(* sample-data request, leaves the store and the loaded pair unchanged, and *)
(* a prediction answered 200 adds one row.                                  *)
C9_OneRowPer200 ==
    /\ [](DataRows(log_file) = n200)
    /\ [][phase = "serving" =>
            /\ model' = model /\ scaler' = scaler
            /\ IF req'.route = "predict" /\ resp'.status = 200
               THEN DataRows(log_file') = DataRows(log_file) + 1
               ELSE log_file' = log_file]_vars

\* A prediction was logged, then a request was rejected.
C9_Witness ==
    /\ n200 = 1 /\ DataRows(log_file) = 1
    /\ IsPredict /\ resp.status = 400

LogColumns == ClaimedOrder \o <<"Predicted_AQI", "Category", "Timestamp">>

(* C6: after N predictions answered 200 one after another, the store that   *)
(* was absent holds N+1 lines, a header followed by N data rows, and every  *)
(* line has the columns of the header: the 8 features, Predicted_AQI,       *)
(* Category, Timestamp.                                                     *)
C6_LogSchema ==
    IF n200 = 0 THEN log_file = AbsentLog
    ELSE /\ log_file.exists
         /\ Len(log_file.lines) = n200 + 1
         /\ log_file.lines[1].header
         /\ \A i \in 2..Len(log_file.lines) : ~log_file.lines[i].header
         /\ \A i \in DOMAIN log_file.lines : log_file.lines[i].cols = LogColumns

\* The part of C6 that the code keeps: N+1 lines, one header, then the rows.
C6_LineCount ==
    IF n200 = 0 THEN log_file = AbsentLog
    ELSE /\ log_file.exists
         /\ Len(log_file.lines) = n200 + 1
         /\ log_file.lines[1].header
         /\ \A i \in 2..Len(log_file.lines) : ~log_file.lines[i].header

(* C10: the category and the color of a 200 response, and the category of   *)
(* the row logged for it, are the band get_aqi_category gives to the        *)
(* returned aqi, the prediction rounded to one decimal place.               *)
C10_CategoryOfReturnedAqi ==
    (IsPredict /\ resp.status = 200) =>
        /\ <<resp.category, resp.color>> = get_aqi_category(resp.aqi)
        /\ LET row == log_file.lines[Len(log_file.lines)]
               at(c) == row.cells[CHOOSE i \in DOMAIN row.cols : row.cols[i] = c]
           IN  at("Category").s = get_aqi_category(at("Predicted_AQI").n)[1]

-----------------------------------------------------------------------------
(* The threaded server, app.py:251: app.run serves each request in a thread *)
(* of its own.  Everything a handler does before log_prediction touches the *)
(* file is local to its thread; os.path.exists (line 21) and to_csv (line   *)
(* 22 or 24) are two steps, and other threads run between them.             *)

ThreadIds == 1..MaxThreads

IdleThread == [pc |-> "idle", r |-> NoReq, df |-> <<>>, seen |-> FALSE, resp |-> NoResp]

ThreadRequests ==
    {PredictRequest(Object(PlainItems), o, f) : o \in {4200, 30004}, f \in {"none", "log"}}
    \cup {PredictRequest(Object(AlterItems({5}, (5 :> "missing"))), 4200, "none")}

InitThreads ==
    /\ model = "None"
    /\ scaler = "None"
    /\ phase = "boot"
    /\ log_file = AbsentLog
    /\ clock = 0
    /\ req = NoReq
    /\ resp = NoResp
    /\ n200 = 0
    /\ threads = [t \in ThreadIds |-> IdleThread]
    /\ call = NoCall
    /\ prev = NoCall

\* lines 83-154 and 14-18: the request is read, checked and predicted, and
\* the row to log is built.
T_Receive(t) ==
    /\ phase = "serving"
    /\ threads[t].pc = "idle"
    /\ \E r \in ThreadRequests :
         LET c == Compute(model, scaler, r) IN
         threads' = [threads EXCEPT ![t] =
             IF c.raised # ""
             THEN [IdleThread EXCEPT !.pc = "done", !.r = r, !.resp = OnException(c.raised)]
             ELSE IF ~c.tolog
             THEN [IdleThread EXCEPT !.pc = "done", !.r = r, !.resp = c.resp]
             ELSE [pc |-> "exists", r |-> r, seen |-> FALSE, resp |-> c.resp,
                   df |-> LogFrame(c.data, c.prediction, c.category, clock)]]
    /\ clock' = clock + 1
    /\ UNCHANGED <<model, scaler, phase, log_file, req, resp, n200, call, prev>>

\* line 21: os.path.exists(log_file)
T_Exists(t) ==
    /\ threads[t].pc = "exists"
    /\ threads' = [threads EXCEPT ![t].pc = "write", ![t].seen = log_file.exists]
    /\ UNCHANGED <<model, scaler, phase, log_file, clock, req, resp, n200, call, prev>>

\* lines 22-24 and 158-162: to_csv in the mode chosen at line 21, then the
\* response; a to_csv that raises leaves the store alone.
T_Write(t) ==
    /\ threads[t].pc = "write"
    /\ IF threads[t].r.fault = "log"
       THEN /\ threads' = [threads EXCEPT ![t].pc = "done",
                                          ![t].resp = OnException("OSError")]
            /\ UNCHANGED <<log_file, n200>>
       ELSE /\ log_file' = ToCsv(log_file, threads[t].df, threads[t].seen)
            /\ threads' = [threads EXCEPT ![t].pc = "done"]
            /\ n200' = n200 + 1
    /\ UNCHANGED <<model, scaler, phase, clock, req, resp, call, prev>>

NextThreads ==
    \/ Startup
    \/ \E t \in ThreadIds : T_Receive(t) \/ T_Exists(t) \/ T_Write(t)

SpecThreads == InitThreads /\ [][NextThreads]_vars

AllDone == \A t \in ThreadIds : threads[t].pc = "done"

(* C7: however the appends of simultaneously handled predictions            *)
(* interleave, the store ends with one header line and one row for each     *)
(* prediction answered 200.                                                 *)
C7_ConcurrentAppendsKeepStore ==
    (AllDone /\ n200 > 0) =>
        /\ HeaderRows(log_file) = 1
        /\ log_file.lines[1].header
        /\ DataRows(log_file) = n200

-----------------------------------------------------------------------------
(* calculate_aqi, model_train.py:11-61.  Concentrations are integers in     *)
(* tenths; a sub-index is the exact fraction <<num, den>> in lowest terms.  *)

RECURSIVE Gcd(_, _)
Gcd(a, b) == IF b = 0 THEN a ELSE Gcd(b, a % b)

Rat(n, d) == LET g == Gcd(n, d) IN <<n \div g, d \div g>>
RLeq(a, b) == a[1] * b[2] <= b[1] * a[2]
RMax(a, b) == IF RLeq(a, b) THEN b ELSE a
RInt(n) == <<n, 1>>

\* lo_aqi + (c - lo_c) * span / (hi_c - lo_c)
Lin(lo_aqi, c, lo_c, span, hi_c) ==
    LET slope == Rat(span, hi_c - lo_c)
    IN  Rat(lo_aqi * slope[2] + (c - lo_c) * slope[1], slope[2])

\* lines 20-31
AqiPm25(pm25) ==
    IF pm25 <= 120 THEN Lin(0, pm25, 0, 50, 120)
    ELSE IF pm25 <= 354 THEN Lin(50, pm25, 120, 50, 354)
    ELSE IF pm25 <= 554 THEN Lin(100, pm25, 354, 50, 554)
    ELSE IF pm25 <= 1504 THEN Lin(150, pm25, 554, 100, 1504)
    ELSE IF pm25 <= 2504 THEN Lin(200, pm25, 1504, 100, 2504)
    ELSE Lin(300, pm25, 2504, 200, 5004)

\* lines 34-45
AqiPm10(pm10) ==
    IF pm10 <= 540 THEN Lin(0, pm10, 0, 50, 540)
    ELSE IF pm10 <= 1540 THEN Lin(50, pm10, 540, 50, 1540)
    ELSE IF pm10 <= 2540 THEN Lin(100, pm10, 1540, 50, 2540)
    ELSE IF pm10 <= 3540 THEN Lin(150, pm10, 2540, 100, 3540)
    ELSE IF pm10 <= 4240 THEN Lin(200, pm10, 3540, 100, 4240)
    ELSE Lin(300, pm10, 4240, 200, 6040)

\* lines 49-58: min(c * k, 500), k = 2, 3, 50 and 1.5
Capped(c, k10) == IF c * k10 <= 50000 THEN Rat(c * k10, 100) ELSE RInt(500)

\* line 61
calculate_aqi(pm25, pm10, no2, so2, co, o3) ==
    RMax(AqiPm25(pm25),
         RMax(AqiPm10(pm10),
              RMax(Capped(no2, 20),
                   RMax(Capped(so2, 30), RMax(Capped(co, 500), Capped(o3, 15))))))

-----------------------------------------------------------------------------
(* The two pure functions, called on their own *)

Thresholds == {5000, 10000, 15000, 20000, 30000}

\* Scores around every threshold, the ends of [0, 500] and one beyond.
Scores ==
    {0, 1, 50000, 60000}
    \cup UNION {{t - 1, t, t + 1, t + 10} : t \in Thresholds}

Pm25Breakpoints == <<120, 354, 554, 1504, 2504>>
Pm10Breakpoints == <<540, 1540, 2540, 3540, 4240>>
AqiBoundaries == <<50, 100, 150, 200, 300>>

Range(f) == {f[i] : i \in DOMAIN f}

\* Each particulate alone, on and a tenth off every breakpoint, and each of
\* the other pollutants alone.
Concentrations ==
    {<<c, 0, 0, 0, 0, 0>> :
        c \in {0, 60, 5004} \cup UNION {{b - 1, b, b + 1} : b \in Range(Pm25Breakpoints)}}
    \cup {<<0, c, 0, 0, 0, 0>> :
        c \in {270, 6040} \cup UNION {{b - 1, b, b + 1} : b \in Range(Pm10Breakpoints)}}
    \cup {<<100, 200, 300, 0, 0, 0>>, <<100, 200, 0, 400, 0, 0>>,
          <<100, 200, 0, 0, 50, 0>>, <<100, 200, 0, 0, 0, 900>>,
          <<0, 0, 3000, 0, 0, 0>>}

InitPure ==
    /\ model = "None"
    /\ scaler = "None"
    /\ phase = "pure"
    /\ log_file = AbsentLog
    /\ clock = 0
    /\ req = NoReq
    /\ resp = NoResp
    /\ n200 = 0
    /\ threads = <<>>
    /\ call = NoCall
    /\ prev = NoCall

CallGetAqiCategory ==
    /\ phase = "pure"
    /\ \E aqi \in Scores :
         call' = [fn |-> "get_aqi_category", arg |-> <<aqi>>,
                  result |-> get_aqi_category(aqi)]
    /\ prev' = call
    /\ UNCHANGED <<model, scaler, phase, log_file, clock, req, resp, n200, threads>>

CallCalculateAqi ==
    /\ phase = "pure"
    /\ \E a \in Concentrations :
         call' = [fn |-> "calculate_aqi", arg |-> a,
                  result |-> calculate_aqi(a[1], a[2], a[3], a[4], a[5], a[6])]
    /\ prev' = call
    /\ UNCHANGED <<model, scaler, phase, log_file, clock, req, resp, n200, threads>>

NextPure == CallGetAqiCategory \/ CallCalculateAqi

SpecPure == InitPure /\ [][NextPure]_vars

-----------------------------------------------------------------------------
Bands ==
    << <<"Good", "#00E400">>, <<"Moderate", "#FFFF00">>,
       <<"Unhealthy for Sensitive Groups", "#FF7E00">>, <<"Unhealthy", "#FF0000">>,
       <<"Very Unhealthy", "#8F3F97">>, <<"Hazardous", "#7E0023">> >>

BandOf(result) == CHOOSE b \in DOMAIN Bands : Bands[b] = result

(* C4: get_aqi_category gives every score exactly one of the six bands, the *)
(* one after as many bands as there are thresholds 50, 100, 150, 200, 300   *)
(* strictly below the score, with its color; 50 is Good, 50.1 Moderate, 300 *)
(* Very Unhealthy, 300.1 Hazardous; a larger score never gets a lower band. *)
C4_BandsPartition ==
    call.fn = "get_aqi_category" =>
        /\ Cardinality({b \in DOMAIN Bands : Bands[b] = call.result}) = 1
        /\ call.result = Bands[1 + Cardinality({t \in Thresholds : call.arg[1] > t})]
        /\ call.arg[1] = 5000 => call.result[1] = "Good"
        /\ call.arg[1] = 5010 => call.result[1] = "Moderate"
        /\ call.arg[1] = 30000 => call.result[1] = "Very Unhealthy"
        /\ call.arg[1] = 30010 => call.result[1] = "Hazardous"
        /\ (prev.fn = "get_aqi_category" /\ prev.arg[1] <= call.arg[1])
              => BandOf(prev.result) <= BandOf(call.result)

\* 300 and then 300.01: the two sides of the last threshold.
C4_Witness ==
    /\ prev.fn = "get_aqi_category" /\ prev.arg = <<30000>>
    /\ prev.result[1] = "Very Unhealthy"
    /\ call.fn = "get_aqi_category" /\ call.arg = <<30001>>
    /\ call.result = <<"Hazardous", "#7E0023">>

(* C5: at every interior breakpoint of the PM2.5 and of the PM10 table the  *)
(* sub-index of the lower branch is the AQI boundary 50, 100, 150, 200, 300 *)
(* of the table, and the upper branch starts from that same boundary: a     *)
(* tenth above the breakpoint the sub-index is above the boundary by less   *)
(* than one AQI point.                                                      *)
C5_BreakpointContinuity ==
    call.fn = "calculate_aqi" =>
        \A k \in DOMAIN AqiBoundaries :
            LET b == RInt(AqiBoundaries[k])
                Near(x) == RLeq(b, x) /\ x # b /\ RLeq(x, RInt(AqiBoundaries[k] + 1))
            IN  /\ call.arg = <<Pm25Breakpoints[k], 0, 0, 0, 0, 0>> => call.result = b
                /\ call.arg = <<Pm25Breakpoints[k] + 1, 0, 0, 0, 0, 0>> => Near(call.result)
                /\ call.arg = <<0, Pm10Breakpoints[k], 0, 0, 0, 0>> => call.result = b
                /\ call.arg = <<0, Pm10Breakpoints[k] + 1, 0, 0, 0, 0>> => Near(call.result)

=============================================================================
